---- MODULE Spec2Model ----
(***************************************************************************)
(* A model of the storage engine wrapper (src/src/storage.cc) and of the   *)
(* request tokenizer and command dispatcher (src/src/redis_bitmap.h, the   *)
(* Request::Tokenize / Request::ExecuteCommands part).                     *)
(*                                                                         *)
(* The module holds these state machines:                                  *)
(*   Spec          the life cycle of the DB handle: Open, CloseDB,         *)
(*                 RestoreFromBackup, ~Storage and the IncrDBRefs /        *)
(*                 DecrDBRefs callers;                                     *)
(*   FairSpec      the same life cycle under fair scheduling;              *)
(*   ExecSpec      the worker threads around Execute and the counter of    *)
(*                 the commands in execution;                              *)
(*   WriteSpec     the write path: CheckDBSizeLimit, Write, Delete;        *)
(*   FollowerSpec  WriteBatch applying the raw batches of a master;        *)
(*   PurgeSpec     PurgeOldBackups on a list of backups;                   *)
(*   TokenizeSpec  Request::Tokenize fed with chunks of protocol bytes;    *)
(*   InlineSpec    Request::Tokenize fed with inline requests;             *)
(*   DispatchSpec  Request::ExecuteCommands on a pipeline of commands.     *)
(***************************************************************************)
EXTENDS Integers, Sequences, FiniteSets, TLC

VARIABLES
  \* ---- Storage: the DB handle and its reference guard
  db_closing_,    \* Storage::db_closing_
  db_refs_,       \* Storage::db_refs_
  db_,            \* state of Storage::db_ / cf_handles_: "null", "open", "freed"
  mpc,            \* position of the thread that owns the Storage object
  caller,         \* who called the Open / CloseDB in progress
  restore_ret,    \* status returned by the last RestoreFromBackup
  tpc,            \* position of each IncrDBRefs/DecrDBRefs caller
  \* ---- Config
  codis_enabled,  \* Config::codis_enabled
  max_db_size,    \* Config::max_db_size, in GiB
  \* ---- Storage: the write path
  reach_db_size_limit_,  \* Storage::reach_db_size_limit_
  total_size,     \* what GetTotalSize() returns now, in bytes
  metadata_cf,    \* user keys present in the metadata column family
  default_cf,     \* user keys with a subkey in the default column family
  slot_cf,        \* user keys present in the slot index
  last_write,     \* the last Write / Delete / WriteBatch call and its outcome
  last_tick,      \* what the last CheckDBSizeLimit observed
  last_batch,     \* the raw batch the last WriteBatch call was given
  \* ---- Request: the tokenizer
  state_,         \* Request::state_: "ArrayLen", "BulkLen", "BulkData"
  multi_bulk_len_,  \* Request::multi_bulk_len_
  bulk_len_,      \* Request::bulk_len_
  tokens_,        \* Request::tokens_
  commands_,      \* Request::commands_
  input,          \* the connection's input evbuffer
  inbound_bytes,  \* Stats: the inbound bytes counter
  tok_status,     \* the Status the last Tokenize call returned
  tok_log,        \* the loop iterations of all Tokenize calls so far
  received,       \* every byte the connection has received so far
  nrecv,          \* number of read events so far
  \* ---- Request: the dispatcher, its connection and the server it reads
  requirepass,    \* Config::requirepass
  slave_readonly, \* Config::slave_readonly
  is_slave,       \* what Server::IsSlave() returns
  is_loading,     \* what Server::IsLoading() returns
  conn_ns,        \* Connection: the namespace, "" when none yet
  conn_admin,     \* Connection: admin mode
  conn_close,     \* Connection: the kCloseAfterReply flag
  conn_out,       \* Connection: the replies written, in order
  exec_log,       \* per command of the last ExecuteCommands call: what ran
  request,        \* the commands the last ExecuteCommands call was given
  \* ---- Storage: the backups
  backup_infos,   \* the backups of the backup engine, oldest first
  num_backups_to_keep,    \* argument of PurgeOldBackups
  backup_max_keep_hours,  \* argument of PurgeOldBackups
  purge_pc,       \* "ready" before the PurgeOldBackups call, "done" after it
  purge_before,   \* the backups the PurgeOldBackups call found
  \* ---- Server: the commands in execution, over all worker threads
  executing_command_num,  \* the counter of Incr/DecrExecutingCommandNum
  wpc,            \* position of each worker thread in ExecuteCommands
  wtodo,          \* commands left in the pipeline of each worker thread
  wlast           \* what the last Execute of each worker thread returned

lifeVars == <<db_closing_, db_refs_, db_, mpc, caller, restore_ret, tpc>>
cfgVars == <<codis_enabled, max_db_size>>
writeVars == <<reach_db_size_limit_, total_size, metadata_cf, default_cf,
               slot_cf, last_write, last_tick, last_batch>>

tokVars == <<state_, multi_bulk_len_, bulk_len_, tokens_, commands_, input,
             inbound_bytes, tok_status, tok_log, received, nrecv>>

dispVars == <<requirepass, slave_readonly, is_slave, is_loading, conn_ns,
              conn_admin, conn_close, conn_out, exec_log, request>>

purgeVars == <<backup_infos, num_backups_to_keep, backup_max_keep_hours,
               purge_pc, purge_before>>

execVars == <<executing_command_num, wpc, wtodo, wlast>>

\* What an action of one state machine leaves alone.
OnlyLife == UNCHANGED <<cfgVars, writeVars, tokVars, dispVars, purgeVars, execVars>>
OnlyWrite == UNCHANGED <<lifeVars, cfgVars, tokVars, dispVars, purgeVars, execVars>>
OnlyTokenize ==
  UNCHANGED <<lifeVars, cfgVars, writeVars, dispVars, purgeVars, execVars>>
OnlyDispatch ==
  UNCHANGED <<lifeVars, cfgVars, writeVars, state_, multi_bulk_len_, bulk_len_,
              tokens_, input, inbound_bytes, tok_status, tok_log, received,
              nrecv, purgeVars, execVars>>
OnlyPurge == UNCHANGED <<lifeVars, cfgVars, writeVars, tokVars, dispVars, execVars>>
OnlyExec == UNCHANGED <<lifeVars, cfgVars, writeVars, tokVars, dispVars, purgeVars>>

(***************************************************************************)
(* Bounds                                                                  *)
(***************************************************************************)
\* most backups the backup engine holds
MaxBackups == 3
\* number of read events of a connection that sends inline requests
MaxInlineReads == 2
\* number of threads that take references (compaction filters, WAL readers)
NumThreads == 2
\* number of worker threads that execute commands
NumWorkers == 3
\* number of read events on a connection
MaxChunks == 4
\* lengths read by std::stoull are kept exact up to this value; longer digit
\* strings stand for it
StoullCap == 2000000000

Threads == 1..NumThreads
Workers == 1..NumWorkers

(***************************************************************************)
(* Storage life cycle                                                      *)
(***************************************************************************)

\* The callers of IncrDBRefs are owned by the LSM instance: the compaction
\* filter factories are handed to rocksdb::DB::Open (storage.cc:153,178,192-194),
\* so a caller can start only while a DB instance exists or is being opened.
LsmLive == db_ = "open" \/ mpc = "DBOpen"

\* The threads that got OK from IncrDBRefs and have not called DecrDBRefs yet.
Holders == {t \in Threads : tpc[t] = "got_ok"}

\* Storage::Open, lines 127-130: the flag and the counter are reset under db_mu_.
OpenReset ==
  /\ mpc = "Open"
  /\ db_closing_' = FALSE
  /\ db_refs_' = 0
  /\ mpc' = "DBOpen"
  /\ UNCHANGED <<db_, caller, restore_ret, tpc>>
  /\ OnlyLife

\* Storage::Open, lines 132-214: rocksdb::DB::Open, then the backup engine and
\* the codis status check; each may fail.  Only a failing DB::Open leaves db_
\* as it was.
DBOpen ==
  /\ mpc = "DBOpen"
  /\ \E s \in {"OK", "DBOpenErr", "DBBackupErr", "NotOK"} :
       /\ db_' = IF s = "DBOpenErr" THEN db_ ELSE "open"
       /\ IF caller = "restore"
            THEN /\ mpc' = "idle"
                 \* RestoreFromBackup, lines 259-264
                 /\ restore_ret' = IF s = "OK" THEN "OK" ELSE "DBOpenErr"
            ELSE /\ mpc' = IF s = "OK" THEN "idle" ELSE "exited"
                 /\ UNCHANGED restore_ret
  /\ UNCHANGED <<db_closing_, db_refs_, caller, tpc>>
  /\ OnlyLife

CloseSetNoWait ==
  /\ mpc = "CloseDB"
  /\ db_closing_' = TRUE
  /\ mpc' = "Destroy"
  /\ UNCHANGED <<db_refs_, db_, caller, restore_ret, tpc>>
  /\ OnlyLife

\* Storage::CloseDB, lines 46-50: SyncWAL, lock, set the flag, first test of
\* the loop condition (the flag is set and db_refs_ is read under db_mu_).
CloseSet ==
  /\ mpc = "CloseDB"
  /\ db_closing_' = TRUE
  /\ mpc' = IF db_refs_ = 0 THEN "Destroy" ELSE "Wait"
  /\ UNCHANGED <<db_refs_, db_, caller, restore_ret, tpc>>
  /\ OnlyLife

\* Storage::CloseDB, lines 50-54: one round of the wait loop; while db_refs_ is
\* not 0 the round changes nothing.
CloseWait ==
  /\ mpc = "Wait"
  /\ db_refs_ = 0
  /\ mpc' = "Destroy"
  /\ UNCHANGED <<db_closing_, db_refs_, db_, caller, restore_ret, tpc>>
  /\ OnlyLife

\* Storage::CloseDB, lines 55-57: unlock, destroy the column family handles,
\* delete db_.
CloseDestroy ==
  /\ mpc = "Destroy"
  /\ db_' = "freed"
  /\ mpc' = IF caller = "restore" THEN "Restore" ELSE "destroyed"
  /\ UNCHANGED <<db_closing_, db_refs_, caller, restore_ret, tpc>>
  /\ OnlyLife

\* Storage::RestoreFromBackup, lines 246-249: reopen the backup engine; on
\* failure return, otherwise close the DB.
RestoreBegin ==
  /\ mpc = "idle"
  /\ \E ok \in BOOLEAN :
       IF ok
         THEN /\ mpc' = "CloseDB"
              /\ caller' = "restore"
              /\ UNCHANGED restore_ret
         ELSE /\ restore_ret' = "DBBackupErr"
              /\ UNCHANGED <<mpc, caller>>
  /\ UNCHANGED <<db_closing_, db_refs_, db_, tpc>>
  /\ OnlyLife

\* Storage::RestoreFromBackup, lines 251-259: restore the latest backup; on
\* failure return, otherwise reopen the DB.
RestoreLatest ==
  /\ mpc = "Restore"
  /\ \E ok \in BOOLEAN :
       IF ok
         THEN /\ mpc' = "Open"
              /\ UNCHANGED restore_ret
         ELSE /\ mpc' = "idle"
              /\ restore_ret' = "DBBackupErr"
  /\ UNCHANGED <<db_closing_, db_refs_, db_, caller, tpc>>
  /\ OnlyLife

\* Storage::~Storage, lines 40-43.
Destructor ==
  /\ mpc = "idle"
  /\ mpc' = "CloseDB"
  /\ caller' = "dtor"
  /\ UNCHANGED <<db_closing_, db_refs_, db_, restore_ret, tpc>>
  /\ OnlyLife

IncrDBRefsNoCheck(t) ==
  /\ tpc[t] = "idle"
  /\ LsmLive
  /\ db_refs_' = db_refs_ + 1
  /\ tpc' = [tpc EXCEPT ![t] = "got_ok"]
  /\ UNCHANGED <<db_closing_, db_, mpc, caller, restore_ret>>
  /\ OnlyLife

\* Storage::IncrDBRefs, lines 436-445.
IncrDBRefs(t) ==
  /\ tpc[t] = "idle"
  /\ LsmLive
  /\ IF db_closing_
       THEN /\ tpc' = [tpc EXCEPT ![t] = "got_notok"]
            /\ UNCHANGED db_refs_
       ELSE /\ db_refs_' = db_refs_ + 1
            /\ tpc' = [tpc EXCEPT ![t] = "got_ok"]
  /\ UNCHANGED <<db_closing_, db_, mpc, caller, restore_ret>>
  /\ OnlyLife

DecrDBRefsForgets(t) ==
  /\ tpc[t] = "got_ok"
  /\ tpc' = [tpc EXCEPT ![t] = "idle"]
  /\ UNCHANGED <<db_closing_, db_refs_, db_, mpc, caller, restore_ret>>
  /\ OnlyLife

\* Storage::DecrDBRefs, lines 447-456, called by a thread that holds a reference.
DecrDBRefs(t) ==
  /\ tpc[t] = "got_ok"
  /\ db_refs_' = IF db_refs_ = 0 THEN 0 ELSE db_refs_ - 1
  /\ tpc' = [tpc EXCEPT ![t] = "idle"]
  /\ UNCHANGED <<db_closing_, db_, mpc, caller, restore_ret>>
  /\ OnlyLife

\* A caller whose IncrDBRefs failed gives up without touching the DB.
GiveUp(t) ==
  /\ tpc[t] = "got_notok"
  /\ tpc' = [tpc EXCEPT ![t] = "idle"]
  /\ UNCHANGED <<db_closing_, db_refs_, db_, mpc, caller, restore_ret>>
  /\ OnlyLife

(***************************************************************************)
(* Storage::PurgeOldBackups                                                *)
(***************************************************************************)
\* Time is counted in units of 16 s, the largest unit that divides both the
\* 3600 s of an hour and 2^32: an hour is 225 units and uint32_t arithmetic
\* on seconds is arithmetic modulo 2^28 units.
HourUnits == 3600 \div 16
Uint32Units == 268435456

\* time(nullptr) at the call, line 285.
Now == 1000 * HourUnits

\* The ages of the backups at the call: new, one hour, one hour and 16 s,
\* two hours, three hours.
AgeValues == {0, HourUnits, HourUnits + 1, 2 * HourUnits, 3 * HourUnits}

\* The values of backup_max_keep_hours: none, one and two hours, and the
\* first value whose number of seconds does not fit uint32_t.
KeepHoursValues == {0, 1, 2, 1193047}

\* The backups GetBackupInfo returns: in order of creation, with ids and
\* timestamps that grow.
BackupLists ==
  UNION { { [i \in 1..n |-> [backup_id |-> i, timestamp |-> Now - ages[i]]] :
            ages \in {a \in [1..n -> AgeValues] :
                        \A i \in 1..(n - 1) : a[i] >= a[i + 1]} }
          : n \in 0..MaxBackups }

\* backup_->PurgeOldBackups(num_backups_to_keep), line 281: the engine keeps
\* the latest num_backups_to_keep backups.
EnginePurgeOldBackups(infos, keep) ==
  SubSeq(infos, Len(infos) - keep + 1, Len(infos))

\* Line 287: backup_max_keep_hours*3600 is computed in uint32_t and added to
\* the 64-bit timestamp.
StillKept(info, hours, now) ==
  info.timestamp + ((hours * HourUnits) % Uint32Units) >= now

\* Lines 286-296: backups are deleted from the oldest on, up to the first one
\* that is still kept.
RECURSIVE DeleteExpired(_, _, _)
DeleteExpired(infos, hours, now) ==
  IF infos = <<>> \/ StillKept(Head(infos), hours, now)
    THEN infos
    ELSE DeleteExpired(Tail(infos), hours, now)

\* Storage::PurgeOldBackups, lines 267-297.
PurgeOldBackups ==
  /\ purge_pc = "ready"
  /\ LET kept == IF Len(backup_infos) > num_backups_to_keep
                   THEN EnginePurgeOldBackups(backup_infos, num_backups_to_keep)
                   ELSE backup_infos
     IN backup_infos' = IF backup_max_keep_hours = 0
                          THEN kept
                          ELSE DeleteExpired(kept, backup_max_keep_hours, Now)
  /\ purge_before' = backup_infos
  /\ purge_pc' = "done"
  /\ UNCHANGED <<num_backups_to_keep, backup_max_keep_hours>>
  /\ OnlyPurge

(***************************************************************************)
(* Storage write path                                                      *)
(***************************************************************************)
GiB == 1073741824

\* The values of max_db_size the model runs with (0 = unlimited).
MaxDbSizeValues == {0, 1}

\* On-disk sizes around the limit of 1 GiB.
SizeValues == {0, GiB - 1, GiB, GiB + 1}

Keys == {"k1", "k2"}
ColumnFamilies == {"metadata", "default"}

\* A write batch is a set of operations; the callers hand in one operation.
BatchOps == [cf : ColumnFamilies, kind : {"put", "del"}, key : Keys]
UserBatches == {{o} : o \in BatchOps}

\* WriteBatchExtractor: the user keys put / deleted in the metadata column family.
GetPutKeys(batch) == {o.key : o \in {x \in batch : x.cf = "metadata" /\ x.kind = "put"}}
GetDeleteKeys(batch) == {o.key : o \in {x \in batch : x.cf = "metadata" /\ x.kind = "del"}}

\* Redis::Slot::UpdateKeys when it succeeds: the slot index operations are
\* added to the batch it is given.
UpdateKeys(put_keys, delete_keys, batch) ==
  batch \cup {[cf |-> "slot", kind |-> "put", key |-> k] : k \in put_keys}
        \cup {[cf |-> "slot", kind |-> "del", key |-> k] : k \in delete_keys}

\* rocksdb::DB::Write of a batch on one column family's key set.
ApplyCF(keys, batch, cf) ==
  (keys \cup {o.key : o \in {x \in batch : x.cf = cf /\ x.kind = "put"}})
     \ {o.key : o \in {x \in batch : x.cf = cf /\ x.kind = "del"}}

\* db_->Write(options, batch): every operation of the batch lands, or (on an
\* I/O error) none does.
DBWrite(batch, ok) ==
  IF ok
    THEN /\ metadata_cf' = ApplyCF(metadata_cf, batch, "metadata")
         /\ default_cf' = ApplyCF(default_cf, batch, "default")
         /\ slot_cf' = ApplyCF(slot_cf, batch, "slot")
    ELSE UNCHANGED <<metadata_cf, default_cf, slot_cf>>

\* The record of a call: last_write.n alternates so that two calls with the
\* same outcome are still two steps.
Called(op, ret) == last_write' = [op |-> op, ret |-> ret, n |-> 1 - last_write.n]

ReachLimitStrict(size, max) == IF max = 0 THEN FALSE ELSE size > max * GiB

\* Storage::CheckDBSizeLimit, lines 409-413: the value the tick computes.
ReachLimit(size, max) == IF max = 0 THEN FALSE ELSE size >= max * GiB

\* Storage::CheckDBSizeLimit, lines 407-425.
CheckDBSizeLimit ==
  /\ reach_db_size_limit_' = ReachLimit(total_size, max_db_size)
  /\ last_tick' = [seen |-> TRUE, size |-> total_size, max |-> max_db_size]
  /\ UNCHANGED <<total_size, metadata_cf, default_cf, slot_cf, last_write,
                 last_batch>>
  /\ OnlyWrite

\* The SST file manager's total changes with flushes, compactions and deletions.
SizeChanges ==
  /\ \E sz \in SizeValues : total_size' = sz
  /\ UNCHANGED <<reach_db_size_limit_, metadata_cf, default_cf, slot_cf,
                 last_write, last_tick, last_batch>>
  /\ OnlyWrite

\* Storage::Write, lines 312-329.  The status of UpdateKeys is not looked at
\* (line 322).
Write ==
  /\ db_ = "open"
  /\ IF reach_db_size_limit_
       THEN /\ Called("Write", "SpaceLimit")
            /\ UNCHANGED <<metadata_cf, default_cf, slot_cf>>
       ELSE \E updates \in UserBatches, iterate_ok, update_ok, write_ok \in BOOLEAN :
              IF codis_enabled /\ ~iterate_ok
                THEN /\ Called("Write", "Corruption")
                     /\ UNCHANGED <<metadata_cf, default_cf, slot_cf>>
                ELSE LET batch == IF codis_enabled /\ update_ok
                                    THEN UpdateKeys(GetPutKeys(updates), GetDeleteKeys(updates), updates)
                                    ELSE updates
                     IN /\ DBWrite(batch, write_ok)
                        /\ Called("Write", IF write_ok THEN "OK" ELSE "IOError")
  /\ UNCHANGED <<reach_db_size_limit_, total_size, last_tick, last_batch>>
  /\ OnlyWrite

\* Storage::Delete, lines 331-346.
Delete ==
  /\ db_ = "open"
  /\ \E cf \in ColumnFamilies, key \in Keys, update_ok, write_ok \in BOOLEAN :
       LET batch == {[cf |-> cf, kind |-> "del", key |-> key]} IN
       IF codis_enabled /\ cf = "metadata" /\ ~update_ok
         THEN /\ Called("Delete", "IOError")
              /\ UNCHANGED <<metadata_cf, default_cf, slot_cf>>
         ELSE /\ DBWrite(IF codis_enabled /\ cf = "metadata"
                           THEN UpdateKeys({}, {key}, batch) ELSE batch, write_ok)
              /\ Called("Delete", IF write_ok THEN "OK" ELSE "IOError")
  /\ UNCHANGED <<reach_db_size_limit_, total_size, last_tick, last_batch>>
  /\ OnlyWrite

\* The raw batches a follower receives from the WAL of its master: what the
\* master's db_->Write was given, with the slot index operations of a master
\* that has codis_enabled or without them.
RawBatches ==
  UserBatches \cup {UpdateKeys(GetPutKeys(b), GetDeleteKeys(b), b) : b \in UserBatches}

WriteBatchNoGate ==
  /\ db_ = "open"
  /\ \E raw_batch \in RawBatches, write_ok \in BOOLEAN :
       /\ last_batch' = raw_batch
       /\ DBWrite(raw_batch, write_ok)
       /\ Called("WriteBatch", IF write_ok THEN "OK" ELSE "NotOK")
  /\ UNCHANGED <<reach_db_size_limit_, total_size, last_tick>>
  /\ OnlyWrite

\* Storage::WriteBatch, lines 365-375.
WriteBatch ==
  /\ db_ = "open"
  /\ \E raw_batch \in RawBatches :
       /\ last_batch' = raw_batch
       /\ IF reach_db_size_limit_
            THEN /\ Called("WriteBatch", "NotOK")
                 /\ UNCHANGED <<metadata_cf, default_cf, slot_cf>>
            ELSE \E write_ok \in BOOLEAN :
                   /\ DBWrite(raw_batch, write_ok)
                   /\ Called("WriteBatch", IF write_ok THEN "OK" ELSE "NotOK")
  /\ UNCHANGED <<reach_db_size_limit_, total_size, last_tick>>
  /\ OnlyWrite

(***************************************************************************)
(* Request::Tokenize                                                       *)
(***************************************************************************)
PROTO_INLINE_MAX_SIZE == 16 * 1024
PROTO_BULK_MAX_SIZE == 128 * 1024 * 1024
PROTO_MAX_MULTI_BULKS == 8 * 1024

\* Bytes are one-character strings; "CR", "LF", "SP" and "TAB" name \r, \n,
\* space and tab.
CRLF == <<"CR", "LF">>
Digits == <<"0", "1", "2", "3", "4", "5", "6", "7", "8", "9">>
IsDigit(c) == \E i \in 1..10 : Digits[i] = c
DigitVal(c) == (CHOOSE i \in 1..10 : Digits[i] = c) - 1
\* std::isspace on the bytes of the alphabet
IsSpace(c) == c \in {"SP", "TAB", "CR", "LF"}

RECURSIVE SkipSpaces(_)
SkipSpaces(s) == IF s # <<>> /\ IsSpace(Head(s)) THEN SkipSpaces(Tail(s)) ELSE s

RECURSIVE DigitsValue(_, _)
DigitsValue(s, acc) ==
  IF s = <<>> \/ ~IsDigit(Head(s))
    THEN acc
    ELSE DigitsValue(Tail(s), IF acc > (StoullCap - 9) \div 10
                                THEN StoullCap
                                ELSE acc * 10 + DigitVal(Head(s)))

\* std::stoull(str): leading white space is skipped, the longest run of digits
\* is converted and what follows it is ignored; without a digit it throws.
\* (Signs are not among the bytes the model feeds.)
Stoull(str) ==
  LET t == SkipSpaces(str)
  IN IF t = <<>> \/ ~IsDigit(Head(t))
       THEN [ok |-> FALSE, val |-> 0]
       ELSE [ok |-> TRUE, val |-> DigitsValue(t, 0)]

\* evbuffer_readln(input, &len, EVBUFFER_EOL_CRLF_STRICT): the bytes before the
\* first \r\n, which is removed from the buffer with them; NULL (and nothing
\* removed) without one.
Readln(buf) ==
  LET at == {i \in 1..(Len(buf) - 1) : buf[i] = "CR" /\ buf[i + 1] = "LF"}
  IN IF at = {}
       THEN [found |-> FALSE, line |-> <<>>, rest |-> buf]
       ELSE LET i == CHOOSE x \in at : \A y \in at : x <= y
            IN [found |-> TRUE, line |-> SubSeq(buf, 1, i - 1),
                rest |-> SubSeq(buf, i + 2, Len(buf))]

\* Util::Split(line, " \t", &tokens_): the non-empty pieces between spaces and
\* tabs, in order.  A piece starts after a delimiter (or at the start of the
\* line) and ends before one (or at the end of the line).
IsDelim(c) == c \in {"SP", "TAB"}
PieceStarts(line) ==
  {i \in 1..Len(line) : ~IsDelim(line[i]) /\ (i = 1 \/ IsDelim(line[i - 1]))}
PieceEnds(line) ==
  {i \in 1..Len(line) : ~IsDelim(line[i]) /\ (i = Len(line) \/ IsDelim(line[i + 1]))}
Kth(S, k) == CHOOSE x \in S : Cardinality({y \in S : y < x}) = k - 1
Split(line) ==
  LET from == PieceStarts(line)
      to == PieceEnds(line)
  IN [k \in 1..Cardinality(from) |-> SubSeq(line, Kth(from, k), Kth(to, k))]

StatusOK == [code |-> "OK", msg |-> ""]
NotOKNoMessage(msg) == [code |-> "NotOK", msg |-> ""]
NotOK(msg) == [code |-> "NotOK", msg |-> msg]
\* not a Status: the iteration went on to the next one
Continue == [code |-> "continue", msg |-> ""]

\* One iteration of the loop, as the log keeps it: the state it ran in, the
\* line it read, the bytes it removed from the buffer, the argument it added
\* and how it ended (Continue, or the Status returned).
Iteration(st, line, eaten, arg, res) ==
  [st |-> st, line |-> line, eaten |-> eaten, arg |-> arg, res |-> res]

\* The end of an iteration: r is the Request (with the buffer, the counter and
\* the configuration), ret is Continue or the Status returned.
\* The log entry also notes what the iteration left behind: the number of
\* commands delivered so far, the state and the inbound bytes counter.
Ended(r, ev, ret) ==
  [r EXCEPT !.tok_log = Append(@, [st |-> ev.st, line |-> ev.line,
                                   eaten |-> ev.eaten, arg |-> ev.arg,
                                   res |-> ev.res,
                                   ncmd |-> Len(r.commands_),
                                   next |-> r.state_,
                                   inb |-> r.inbound_bytes]),
            !.ret = ret]

TooManyBulksOffByOne(codis, n) == ~codis /\ n >= PROTO_MAX_MULTI_BULKS

\* Line 61.
TooManyBulks(codis, n) == ~codis /\ n > PROTO_MAX_MULTI_BULKS

TooBigBulkOffByOne(n) == n >= PROTO_BULK_MAX_SIZE

\* Line 91.
TooBigBulk(n) == n > PROTO_BULK_MAX_SIZE

TooBigInlineOffByOne(len) == len >= PROTO_INLINE_MAX_SIZE

\* Line 67.
TooBigInline(len) == len > PROTO_INLINE_MAX_SIZE

\* Lines 50-76.
StepArrayLen(r) ==
  LET ln == Readln(r.input)
      len == Len(ln.line)
      eaten == IF ln.found THEN ln.line \o CRLF ELSE <<>>
      ev(res) == Iteration("ArrayLen", ln.line, eaten, <<>>, res)
      r1 == [r EXCEPT !.input = ln.rest]
      r2 == [r1 EXCEPT !.inbound_bytes = @ + len]
  IN IF ~ln.found \/ len <= 0
       THEN Ended(r1, ev(StatusOK), StatusOK)
       ELSE IF ln.line[1] = "*"
         THEN LET n == Stoull(Tail(ln.line))
                  r3 == [r2 EXCEPT !.multi_bulk_len_ = n.val]
              IN IF ~n.ok
                   THEN Ended(r2, ev(NotOK("Protocol error: expect integer")),
                              NotOK("Protocol error: expect integer"))
                   ELSE IF TooManyBulks(r.codis_enabled, n.val)
                     THEN Ended(r3, ev(NotOK("Protocol error: too many bulk strings")),
                                NotOK("Protocol error: too many bulk strings"))
                     ELSE Ended([r3 EXCEPT !.state_ = "BulkLen"], ev(Continue), Continue)
         ELSE IF TooBigInline(len)
           THEN Ended(r2, ev(NotOK("Protocol error: too big inline request")),
                      NotOK("Protocol error: too big inline request"))
           ELSE Ended([r2 EXCEPT !.commands_ = Append(@, Split(ln.line)),
                                 !.tokens_ = <<>>,
                                 !.state_ = "ArrayLen"],
                      ev(Continue), Continue)

\* Lines 77-97.
StepBulkLen(r) ==
  LET ln == Readln(r.input)
      len == Len(ln.line)
      eaten == IF ln.found THEN ln.line \o CRLF ELSE <<>>
      ev(res) == Iteration("BulkLen", ln.line, eaten, <<>>, res)
      r1 == [r EXCEPT !.input = ln.rest]
      r2 == [r1 EXCEPT !.inbound_bytes = @ + len]
  IN IF ~ln.found \/ len <= 0
       THEN Ended(r1, ev(StatusOK), StatusOK)
       ELSE IF ln.line[1] # "$"
         THEN Ended(r2, ev(NotOK("Protocol error: expect '$'")),
                    NotOK("Protocol error: expect '$'"))
         ELSE LET n == Stoull(Tail(ln.line))
                  r3 == [r2 EXCEPT !.bulk_len_ = n.val]
              IN IF ~n.ok
                   THEN Ended(r2, ev(NotOK("Protocol error: expect integer")),
                              NotOK("Protocol error: expect integer"))
                   ELSE IF TooBigBulk(n.val)
                     THEN Ended(r3, ev(NotOK("Protocol error: too big bulk string")),
                                NotOK("Protocol error: too big bulk string"))
                     ELSE Ended([r3 EXCEPT !.state_ = "BulkData"], ev(Continue), Continue)

\* Line 104: --multi_bulk_len_ on the unsigned counter that holds the result
\* of std::stoull; from 0 it wraps to the largest value, which StoullCap
\* stands for.
Decremented(n) == IF n = 0 THEN StoullCap ELSE n - 1

\* Lines 98-112.
StepBulkData(r) ==
  IF Len(r.input) < r.bulk_len_ + 2
    THEN Ended(r, Iteration("BulkData", <<>>, <<>>, <<>>, StatusOK), StatusOK)
    ELSE LET data == SubSeq(r.input, 1, r.bulk_len_)
             eaten == SubSeq(r.input, 1, r.bulk_len_ + 2)
             toks == Append(r.tokens_, data)
             left == Decremented(r.multi_bulk_len_)
             r1 == [r EXCEPT !.input = SubSeq(@, r.bulk_len_ + 3, Len(@)),
                             !.inbound_bytes = @ + r.bulk_len_ + 2,
                             !.multi_bulk_len_ = left]
             ev == Iteration("BulkData", <<>>, eaten, data, Continue)
         IN IF left = 0
              THEN Ended([r1 EXCEPT !.state_ = "ArrayLen",
                                    !.commands_ = Append(@, toks),
                                    !.tokens_ = <<>>], ev, Continue)
              ELSE Ended([r1 EXCEPT !.state_ = "BulkLen", !.tokens_ = toks],
                         ev, Continue)

\* Lines 48-114: the loop runs until an iteration returns.
RECURSIVE TokenizeLoop(_)
TokenizeLoop(r) ==
  LET n == CASE r.state_ = "ArrayLen" -> StepArrayLen(r)
             [] r.state_ = "BulkLen" -> StepBulkLen(r)
             [] OTHER -> StepBulkData(r)
  IN IF n.ret = Continue THEN TokenizeLoop(n) ELSE n

\* The Request (and what Tokenize reads besides it) as one record.
Request(st, mbl, bl, toks, cmds, buf, inb, codis, log) ==
  [state_ |-> st, multi_bulk_len_ |-> mbl, bulk_len_ |-> bl, tokens_ |-> toks,
   commands_ |-> cmds, input |-> buf, inbound_bytes |-> inb,
   codis_enabled |-> codis, tok_log |-> log, ret |-> Continue]

\* Request::Tokenize(input), lines 44-115, on a new Request.
TokenizeNew(buf, codis) ==
  TokenizeLoop(Request("ArrayLen", 0, 0, <<>>, <<>>, buf, 0, codis, <<>>))

\* The chunks of bytes a read event may bring.
Chunks ==
  { <<"*", "0">> \o CRLF,
    <<"*", "1">> \o CRLF,
    <<"*", "2">> \o CRLF,
    <<"$", "1">> \o CRLF,
    <<"a">> \o CRLF,
    <<"a">>,
    CRLF,
    <<"SP">>,
    <<"*">>,
    <<"*", "8", "1", "9", "2">> \o CRLF,
    <<"*", "8", "1", "9", "3">> \o CRLF,
    <<"$", "1", "3", "4", "2", "1", "7", "7", "2", "8">> \o CRLF,
    <<"$", "1", "3", "4", "2", "1", "7", "7", "2", "9">> \o CRLF }

\* Inline requests a read event may bring: short lines with spaces and tabs,
\* pieces of lines, the lines of PROTO_INLINE_MAX_SIZE bytes and of one byte
\* more, and headers, well-formed or not.
InlineChunks ==
  { <<"a", "SP", "b">> \o CRLF,
    <<"SP", "a", "TAB", "SP", "b", "SP">> \o CRLF,
    <<"SP", "TAB">> \o CRLF,
    <<"a">>,
    <<"SP">>,
    CRLF,
    <<"*", "1">> \o CRLF,
    <<"$", "1">> \o CRLF,
    <<"*", "a">> \o CRLF,
    <<"$", "a">> \o CRLF,
    <<"*", "8", "1", "9", "3">> \o CRLF,
    <<"$", "1", "3", "4", "2", "1", "7", "7", "2", "9">> \o CRLF,
    [i \in 1..PROTO_INLINE_MAX_SIZE |-> "a"] \o CRLF,
    [i \in 1..(PROTO_INLINE_MAX_SIZE + 1) |-> "a"] \o CRLF }

\* A read event: the bytes are added to the input buffer and
\* Request::Tokenize(input), lines 44-115, is called.  After a protocol error
\* the connection is closed.
Tokenize(chunk) ==
  /\ tok_status.code = "OK"
  /\ nrecv < MaxChunks
  /\ LET r == TokenizeLoop(Request(state_, multi_bulk_len_, bulk_len_, tokens_,
                                   commands_, input \o chunk, inbound_bytes,
                                   codis_enabled, tok_log))
     IN /\ state_' = r.state_
        /\ multi_bulk_len_' = r.multi_bulk_len_
        /\ bulk_len_' = r.bulk_len_
        /\ tokens_' = r.tokens_
        /\ commands_' = r.commands_
        /\ input' = r.input
        /\ inbound_bytes' = r.inbound_bytes
        /\ tok_status' = r.ret
        /\ tok_log' = r.tok_log
  /\ received' = received \o chunk
  /\ nrecv' = nrecv + 1
  /\ OnlyTokenize

\* A read event of a connection that sends inline requests.
TokenizeInline(chunk) == nrecv < MaxInlineReads /\ Tokenize(chunk)

(***************************************************************************)
(* Request::ExecuteCommands                                                *)
(***************************************************************************)
\* most commands in one pipeline
MaxCommands == 2

kDefaultNamespace == "__namespace"

UpperCase == <<"A", "B", "C", "D", "E", "F", "G", "H", "I", "J", "K", "L", "M",
               "N", "O", "P", "Q", "R", "S", "T", "U", "V", "W", "X", "Y", "Z">>
LowerCase == <<"a", "b", "c", "d", "e", "f", "g", "h", "i", "j", "k", "l", "m",
               "n", "o", "p", "q", "r", "s", "t", "u", "v", "w", "x", "y", "z">>

\* Util::ToLower: every upper-case letter becomes its lower-case letter.
ToLowerChar(c) ==
  IF \E i \in 1..Len(UpperCase) : UpperCase[i] = c
    THEN LowerCase[CHOOSE i \in 1..Len(UpperCase) : UpperCase[i] = c]
    ELSE c
ToLower(str) == [i \in 1..Len(str) |-> ToLowerChar(str[i])]

\* The command table: name, arity, and whether the command writes.
CommandTable ==
  { [name |-> <<"a", "u", "t", "h">>, arity |-> 2, is_write |-> FALSE],
    [name |-> <<"g", "e", "t">>, arity |-> 2, is_write |-> FALSE],
    [name |-> <<"s", "e", "t">>, arity |-> -3, is_write |-> TRUE] }

NoCommand == [name |-> <<>>, arity |-> 0, is_write |-> FALSE]

\* LookupCommand: the table entry of the lower-cased name.
LookupCommand(cmd_name) ==
  LET hit == {c \in CommandTable : c.name = ToLower(cmd_name)}
  IN IF hit = {} THEN [ok |-> FALSE, cmd |-> NoCommand]
                 ELSE [ok |-> TRUE, cmd |-> CHOOSE c \in hit : TRUE]

\* What Connection::Reply is given; a text is kept as the pieces it is
\* concatenated from.
Error(msg) == [error |-> TRUE, text |-> <<msg>>]
ErrorWith(prefix, msg) == [error |-> TRUE, text |-> <<prefix, msg>>]
Plain(text) == [error |-> FALSE, text |-> <<text>>]

\* Lines 117-123.
inCommandWhitelist(command) ==
  \E allow_command \in {<<"a", "u", "t", "h">>} : allow_command = command

NeedsAuthCaseSensitive(cmd_tokens) ==
  requirepass # "" /\ Head(cmd_tokens) # <<"a", "u", "t", "h">>

\* Line 169.
NeedsAuth(cmd_tokens) ==
  requirepass # "" /\ ToLower(Head(cmd_tokens)) # <<"a", "u", "t", "h">>

WrongArityExactOnly(arity, tokens) == arity > 0 /\ tokens # arity

\* Lines 187-188.
WrongArity(arity, tokens) ==
  \/ arity > 0 /\ tokens # arity
  \/ arity < 0 /\ tokens < -arity

ReadOnlyOnMaster(cmd) == slave_readonly /\ ~is_slave /\ cmd.is_write

\* Line 198.
ReadOnly(cmd) == slave_readonly /\ is_slave /\ cmd.is_write

\* What the `if` of line 198 evaluates: IsWrite is called only when the two
\* conditions before it hold.
ReadOnlySteps == IF slave_readonly /\ is_slave THEN <<"IsWrite">> ELSE <<>>

\* What Parse and Execute of a command can do, seen from the dispatcher:
\* Parse returns OK or not; Execute returns OK or not, may store a reply in
\* the buffer it is given and may enable kCloseAfterReply on the connection
\* it is given.
ParseOutcomes == {StatusOK, NotOK("syntax error")}
ExecuteOutcomes ==
  { [s |-> StatusOK, stores |-> TRUE, reply |-> "+OK", closes |-> FALSE],
    [s |-> StatusOK, stores |-> TRUE, reply |-> "+OK", closes |-> TRUE],
    [s |-> StatusOK, stores |-> FALSE, reply |-> "", closes |-> FALSE],
    [s |-> NotOK("failed"), stores |-> FALSE, reply |-> "", closes |-> FALSE] }

\* The status variable s before LookupCommand has assigned it.
NoStatus == [code |-> "none", msg |-> ""]

\* The connection and the local `reply` while the loop runs.
LoopState(ns, admin, close, out, reply) ==
  [ns |-> ns, admin |-> admin, close |-> close, out |-> out, reply |-> reply]

\* One iteration of the loop of lines 166-222: the state it leaves, what it
\* did for the command, and whether the loop goes on.
Iterated(st0, st, cmd_tokens, steps, s, replies, flow) ==
  [st |-> [st EXCEPT !.out = st.out \o replies],
   entry |-> [tokens |-> cmd_tokens, steps |-> steps, replies |-> replies,
              ns_before |-> st0.ns, ns_after |-> st.ns,
              admin_after |-> st.admin,
              s |-> s, buf |-> st.reply, close_after |-> st.close,
              output |-> ""],
   flow |-> flow]

AfterExecuteErrorBreak == "break"

\* Line 219.
AfterExecuteError == "continue"

NeverStops(st) == FALSE

\* Line 167.
StopsLoop(st) == st.close

ExecutionStepsCallsCountedLast ==
  <<"SetLastCmd", "now", "turnOnProfilingIfNeed", "IncrExecutingCommandNum",
    "Execute", "DecrExecutingCommandNum", "now", "SlowlogPushEntryIfNeeded",
    "IncrLatency", "FeedMonitorConns", "IncrCalls">>

\* Lines 202-214: what runs for a command that passed every check, whatever
\* Execute returns.
ExecutionSteps ==
  <<"SetLastCmd", "IncrCalls", "now", "turnOnProfilingIfNeed",
    "IncrExecutingCommandNum", "Execute", "DecrExecutingCommandNum", "now",
    "SlowlogPushEntryIfNeeded", "IncrLatency", "FeedMonitorConns">>

\* Lines 202-221: the command runs.
Executes(st0, st, cmd_tokens, steps) ==
  LET ran == steps \o ExecutionSteps
  IN { LET reply == IF x.stores THEN x.reply ELSE st.reply
           output == IF x.stores THEN x.reply ELSE ""
           st2 == [st EXCEPT !.reply = reply, !.close = @ \/ x.closes]
           it == IF x.s # StatusOK
                   THEN Iterated(st0, st2, cmd_tokens, ran, x.s,
                                 <<ErrorWith("ERR ", x.s.msg)>>, AfterExecuteError)
                   ELSE Iterated(st0, st2, cmd_tokens, ran, x.s,
                                 IF reply # "" THEN <<Plain(reply)>> ELSE <<>>,
                                 "continue")
       IN [it EXCEPT !.entry.output = output]
       : x \in ExecuteOutcomes }

\* Lines 192-201: Parse, then the read-only check.
Parses(st0, st, cmd, cmd_tokens, steps) ==
  UNION { IF s # StatusOK
            THEN {Iterated(st0, st, cmd_tokens, steps \o <<"SetArgs", "Parse">>,
                           s, <<Error(s.msg)>>, "continue")}
            ELSE IF ReadOnly(cmd)
              THEN {Iterated(st0, st, cmd_tokens,
                             steps \o <<"SetArgs", "Parse">> \o ReadOnlySteps,
                             s, <<Error("READONLY You can't write against a read only slave.")>>,
                             "continue")}
              ELSE Executes(st0, st, cmd_tokens,
                            steps \o <<"SetArgs", "Parse">> \o ReadOnlySteps)
          : s \in ParseOutcomes }

DispatchArityFirst(st0, cmd_tokens) ==
  IF st0.ns = "" /\ NeedsAuth(cmd_tokens)
    THEN {Iterated(st0, st0, cmd_tokens, <<>>, NoStatus,
                   <<Error("NOAUTH Authentication required.")>>, "continue")}
    ELSE
      LET st == IF st0.ns = ""
                  THEN [st0 EXCEPT !.admin = TRUE, !.ns = kDefaultNamespace]
                  ELSE st0
          steps == (IF st0.ns = "" THEN <<"BecomeAdmin", "SetNamespace">>
                                   ELSE <<>>) \o <<"LookupCommand">>
          s == LookupCommand(Head(cmd_tokens))
      IN IF ~s.ok
           THEN {Iterated(st0, st, cmd_tokens, steps, NotOK("unknown command"),
                          <<Error("ERR unknown command")>>, "continue")}
           ELSE IF WrongArity(s.cmd.arity, Len(cmd_tokens))
             THEN {Iterated(st0, st, cmd_tokens, steps \o <<"GetArity">>,
                            StatusOK, <<Error("ERR wrong number of arguments")>>,
                            "continue")}
             ELSE IF is_loading /\ ~inCommandWhitelist(s.cmd.name)
               THEN {Iterated(st0, st, cmd_tokens,
                              steps \o <<"GetArity", "IsLoading">>,
                              StatusOK, <<Error("ERR restoring the db from backup")>>,
                              "break")}
               ELSE Parses(st0, st, s.cmd, cmd_tokens,
                           steps \o <<"IsLoading", "GetArity">>)

\* Lines 168-191: the checks before Parse.
Dispatch(st0, cmd_tokens) ==
  IF st0.ns = "" /\ NeedsAuth(cmd_tokens)
    THEN {Iterated(st0, st0, cmd_tokens, <<>>, NoStatus,
                   <<Error("NOAUTH Authentication required.")>>, "continue")}
    ELSE
      LET st == IF st0.ns = ""
                  THEN [st0 EXCEPT !.admin = TRUE, !.ns = kDefaultNamespace]
                  ELSE st0
          steps == (IF st0.ns = "" THEN <<"BecomeAdmin", "SetNamespace">>
                                   ELSE <<>>) \o <<"LookupCommand">>
          s == LookupCommand(Head(cmd_tokens))
      IN IF ~s.ok
           THEN {Iterated(st0, st, cmd_tokens, steps, NotOK("unknown command"),
                          <<Error("ERR unknown command")>>, "continue")}
           ELSE IF is_loading /\ ~inCommandWhitelist(s.cmd.name)
             THEN {Iterated(st0, st, cmd_tokens, steps \o <<"IsLoading">>,
                            StatusOK, <<Error("ERR restoring the db from backup")>>,
                            "break")}
             ELSE IF WrongArity(s.cmd.arity, Len(cmd_tokens))
               THEN {Iterated(st0, st, cmd_tokens,
                              steps \o <<"IsLoading", "GetArity">>,
                              StatusOK, <<Error("ERR wrong number of arguments")>>,
                              "continue")}
               ELSE Parses(st0, st, s.cmd, cmd_tokens,
                           steps \o <<"IsLoading", "GetArity">>)

\* Lines 166-222: every way the loop can run over the commands left.
RECURSIVE Loop(_, _, _)
Loop(cmds, st, log) ==
  IF cmds = <<>> \/ StopsLoop(st)
    THEN {[st |-> st, log |-> log]}
    ELSE UNION { IF o.flow = "break"
                   THEN {[st |-> o.st, log |-> Append(log, o.entry)]}
                   ELSE Loop(Tail(cmds), o.st, Append(log, o.entry))
                 : o \in Dispatch(st, Head(cmds)) }

\* Lines 161-224.  With commands_ empty the call returns at once.
ExecuteCommands ==
  /\ commands_ # <<>>
  /\ \E r \in Loop(commands_, LoopState(conn_ns, conn_admin, conn_close, conn_out, ""), <<>>) :
       /\ conn_ns' = r.st.ns
       /\ conn_admin' = r.st.admin
       /\ conn_out' = r.st.out
       /\ conn_close' = r.st.close
       /\ exec_log' = r.log
  /\ request' = commands_
  /\ commands_' = <<>>
  /\ UNCHANGED <<requirepass, slave_readonly, is_slave, is_loading>>
  /\ OnlyDispatch

\* The commands a pipeline is made of.
Argvs ==
  LET auth == <<"a", "u", "t", "h">>
      get == <<"g", "e", "t">>
      set == <<"s", "e", "t">>
      k == <<"k">>
      v == <<"v">>
  IN { <<auth, v>>, <<<<"A", "U", "T", "H">>, v>>, <<auth>>,
       <<get, k>>, <<get>>, <<get, k, k>>,
       <<set, k, v>>, <<set, k>>, <<set, k, v, v>>,
       <<<<"f", "o", "o">>>> }

Pipelines == UNION {[1..n -> Argvs] : n \in 1..MaxCommands}

(***************************************************************************)
(* Initial states and specifications                                       *)
(***************************************************************************)

\* The Storage object after construction, about to be opened.  The declared
\* initial value of db_closing_ is not part of the sources read here, so both
\* values are admitted.
(***************************************************************************)
(* The commands in execution: lines 206-208 of ExecuteCommands, run by     *)
(* every worker thread on the pipelines of its connections                 *)
(***************************************************************************)
\* A worker thread is given a pipeline: ExecuteCommands begins, line 161.
BeginPipeline(w) ==
  /\ wpc[w] = "loop" /\ wtodo[w] = 0
  /\ \E n \in 1..MaxCommands : wtodo' = [wtodo EXCEPT ![w] = n]
  /\ UNCHANGED <<executing_command_num, wpc, wlast>>
  /\ OnlyExec

\* Lines 168-201: a check rejects the command; the loop goes to the next one.
RejectCommand(w) ==
  /\ wpc[w] = "loop" /\ wtodo[w] > 0
  /\ wtodo' = [wtodo EXCEPT ![w] = @ - 1]
  /\ UNCHANGED <<executing_command_num, wpc, wlast>>
  /\ OnlyExec

\* Line 206: svr_->IncrExecutingCommandNum(), one atomic addition.
IncrExecutingCommandNum(w) ==
  /\ wpc[w] = "loop" /\ wtodo[w] > 0
  /\ executing_command_num' = executing_command_num + 1
  /\ wpc' = [wpc EXCEPT ![w] = "incremented"]
  /\ UNCHANGED <<wtodo, wlast>>
  /\ OnlyExec

\* Line 207: Execute is called.
ExecuteBegins(w) ==
  /\ wpc[w] = "incremented"
  /\ wpc' = [wpc EXCEPT ![w] = "executing"]
  /\ UNCHANGED <<executing_command_num, wtodo, wlast>>
  /\ OnlyExec

\* Line 207: Execute returns its status, OK or not.
ExecuteReturns(w) ==
  /\ wpc[w] = "executing"
  /\ \E s \in {"OK", "NotOK"} : wlast' = [wlast EXCEPT ![w] = s]
  /\ wpc' = [wpc EXCEPT ![w] = "returned"]
  /\ UNCHANGED <<executing_command_num, wtodo>>
  /\ OnlyExec

DecrOnSuccessOnly(w) ==
  /\ wpc[w] = "returned"
  /\ executing_command_num' =
       IF wlast[w] = "OK" THEN executing_command_num - 1 ELSE executing_command_num
  /\ wpc' = [wpc EXCEPT ![w] = "loop"]
  /\ wtodo' = [wtodo EXCEPT ![w] = @ - 1]
  /\ UNCHANGED wlast
  /\ OnlyExec

\* Line 208: svr_->DecrExecutingCommandNum(), before the status of Execute is
\* looked at (line 215); lines 209-221 then end the iteration.
DecrExecutingCommandNum(w) ==
  /\ wpc[w] = "returned"
  /\ executing_command_num' = executing_command_num - 1
  /\ wpc' = [wpc EXCEPT ![w] = "loop"]
  /\ wtodo' = [wtodo EXCEPT ![w] = @ - 1]
  /\ UNCHANGED wlast
  /\ OnlyExec

\* A server with no command in execution.
ExecInit ==
  /\ executing_command_num = 0
  /\ wpc = [w \in Workers |-> "loop"]
  /\ wtodo = [w \in Workers |-> 0]
  /\ wlast = [w \in Workers |-> "none"]

ExecFixed == ExecInit

LifeInit ==
  /\ db_closing_ \in BOOLEAN
  /\ db_refs_ = 0
  /\ db_ = "null"
  /\ mpc = "Open"
  /\ caller = "startup"
  /\ restore_ret = "none"
  /\ tpc = [t \in Threads |-> "idle"]

\* The write path of an opened, empty DB before the first tick.
WriteInit ==
  /\ reach_db_size_limit_ = FALSE
  /\ total_size \in SizeValues
  /\ metadata_cf = {}
  /\ default_cf = {}
  /\ slot_cf = {}
  /\ last_write = [op |-> "none", ret |-> "none", n |-> 0]
  /\ last_tick = [seen |-> FALSE, size |-> 0, max |-> 0]
  /\ last_batch = {}

\* A new Request on a connection that has received nothing.
TokRest ==
  /\ state_ = "ArrayLen"
  /\ multi_bulk_len_ = 0
  /\ bulk_len_ = 0
  /\ tokens_ = <<>>
  /\ input = <<>>
  /\ inbound_bytes = 0
  /\ tok_status = StatusOK
  /\ tok_log = <<>>
  /\ received = <<>>
  /\ nrecv = 0

TokInit == TokRest /\ commands_ = <<>>

\* A connection, new or already given the default namespace, on a server in
\* any configuration and role.
DispInit ==
  /\ requirepass \in {"", "secret"}
  /\ slave_readonly \in BOOLEAN
  /\ is_slave \in BOOLEAN
  /\ is_loading \in BOOLEAN
  /\ conn_ns \in {"", kDefaultNamespace}
  /\ conn_admin = (conn_ns # "")
  /\ conn_close \in BOOLEAN
  /\ conn_out = <<>>
  /\ exec_log = <<>>
  /\ request = <<>>

DispFixed ==
  /\ requirepass = ""
  /\ slave_readonly = FALSE
  /\ is_slave = FALSE
  /\ is_loading = FALSE
  /\ conn_ns = ""
  /\ conn_admin = FALSE
  /\ conn_close = FALSE
  /\ conn_out = <<>>
  /\ exec_log = <<>>
  /\ request = <<>>

\* Any backups and any arguments of the PurgeOldBackups call.
PurgeInit ==
  /\ backup_infos \in BackupLists
  /\ num_backups_to_keep \in 0..MaxBackups
  /\ backup_max_keep_hours \in KeepHoursValues
  /\ purge_pc = "ready"
  /\ purge_before = <<>>

PurgeFixed ==
  /\ backup_infos = <<>>
  /\ num_backups_to_keep = 0
  /\ backup_max_keep_hours = 0
  /\ purge_pc = "ready"
  /\ purge_before = <<>>

CfgInit ==
  /\ codis_enabled \in BOOLEAN
  /\ max_db_size \in MaxDbSizeValues

\* The Storage object after a successful first Open, serving.
LifeOpened ==
  /\ db_closing_ = FALSE
  /\ db_refs_ = 0
  /\ db_ = "open"
  /\ mpc = "idle"
  /\ caller = "startup"
  /\ restore_ret = "none"
  /\ tpc = [t \in Threads |-> "idle"]

\* One fixed value for the variables a specification does not use.
WriteFixed == WriteInit /\ total_size = 0
CfgFixed == codis_enabled = FALSE /\ max_db_size = 0

vars == <<lifeVars, cfgVars, writeVars, tokVars, dispVars, purgeVars, execVars>>

Init == LifeInit /\ CfgFixed /\ WriteFixed /\ TokInit /\ DispFixed /\ PurgeFixed /\ ExecFixed

Next ==
  \/ OpenReset
  \/ DBOpen
  \/ CloseSet
  \/ CloseWait
  \/ CloseDestroy
  \/ RestoreBegin
  \/ RestoreLatest
  \/ Destructor
  \/ \E t \in Threads : IncrDBRefs(t)
  \/ \E t \in Threads : DecrDBRefs(t)
  \/ \E t \in Threads : GiveUp(t)

Spec == Init /\ [][Next]_vars

\* The life cycle under fair scheduling: the thread inside CloseDB goes on
\* running (its usleep returns), and a thread that got OK from IncrDBRefs
\* calls DecrDBRefs in the end.
Fairness ==
  /\ WF_vars(CloseSet)
  /\ WF_vars(CloseWait)
  /\ WF_vars(CloseDestroy)
  /\ \A t \in Threads : WF_vars(DecrDBRefs(t))

FairSpec == Init /\ [][Next]_vars /\ Fairness

WriteSpecInit ==
  LifeOpened /\ CfgInit /\ WriteInit /\ TokInit /\ DispFixed /\ PurgeFixed /\ ExecFixed

WriteNext ==
  \/ CheckDBSizeLimit
  \/ SizeChanges
  \/ Write
  \/ Delete

WriteSpec == WriteSpecInit /\ [][WriteNext]_vars

\* A follower with codis_enabled applying the WAL batches of its master.
FollowerInit ==
  /\ LifeOpened /\ WriteInit /\ TokInit /\ DispFixed /\ PurgeFixed /\ ExecFixed
  /\ codis_enabled = TRUE
  /\ max_db_size \in MaxDbSizeValues

FollowerNext ==
  \/ CheckDBSizeLimit
  \/ SizeChanges
  \/ WriteBatch

FollowerSpec == FollowerInit /\ [][FollowerNext]_vars

TokenizeInit ==
  /\ LifeOpened /\ WriteFixed /\ TokInit /\ DispFixed /\ PurgeFixed /\ ExecFixed
  /\ codis_enabled \in BOOLEAN
  /\ max_db_size = 0

TokenizeNext == \E chunk \in Chunks : Tokenize(chunk)

TokenizeSpec == TokenizeInit /\ [][TokenizeNext]_vars

InlineNext == \E chunk \in InlineChunks : TokenizeInline(chunk)

InlineSpec == TokenizeInit /\ [][InlineNext]_vars

\* PurgeOldBackups called once on any list of backups.
PurgeSpecInit ==
  LifeOpened /\ CfgFixed /\ WriteFixed /\ TokInit /\ DispFixed /\ PurgeInit /\ ExecFixed

PurgeNext == PurgeOldBackups

PurgeSpec == PurgeSpecInit /\ [][PurgeNext]_vars

\* ExecuteCommands is given the commands a Tokenize call left in commands_.
DispatchInit ==
  /\ LifeOpened /\ CfgFixed /\ WriteFixed /\ TokRest /\ DispInit /\ PurgeFixed /\ ExecFixed
  /\ commands_ \in Pipelines

DispatchNext == ExecuteCommands

DispatchSpec == DispatchInit /\ [][DispatchNext]_vars

\* The worker threads of a serving server.
ExecSpecInit ==
  LifeOpened /\ CfgFixed /\ WriteFixed /\ TokInit /\ DispFixed /\ PurgeFixed /\ ExecInit

ExecNext ==
  \/ \E w \in Workers : BeginPipeline(w)
  \/ \E w \in Workers : RejectCommand(w)
  \/ \E w \in Workers : IncrExecutingCommandNum(w)
  \/ \E w \in Workers : ExecuteBegins(w)
  \/ \E w \in Workers : ExecuteReturns(w)
  \/ \E w \in Workers : DecrExecutingCommandNum(w)

ExecSpec == ExecSpecInit /\ [][ExecNext]_vars

(***************************************************************************)
(* C1: the column family handles and the DB are destroyed only in a state  *)
(* where db_closing_ is set and db_refs_ is 0, and at that moment no       *)
(* thread holds a reference it got from IncrDBRefs and has not given back. *)
(***************************************************************************)
C1_DestroyOnlyWhenDrained ==
  mpc = "Destroy" => db_closing_ /\ db_refs_ = 0 /\ Holders = {}

\* CloseDB is about to free the handles after it refused a caller.
C1_Witness ==
  mpc = "Destroy" /\ \E t \in Threads : tpc[t] = "got_notok"

(***************************************************************************)
(* C2: while db_closing_ is set an IncrDBRefs call returns NotOK and       *)
(* leaves db_refs_ unchanged; while it is not set the call returns OK and  *)
(* adds exactly one to db_refs_.  The flag is set only by CloseDB and      *)
(* reset only by Open.                                                     *)
(***************************************************************************)
C2_IncrRefusedWhileClosing ==
  [][ /\ \A t \in Threads :
           (tpc[t] = "idle" /\ tpc'[t] # "idle") =>
             IF db_closing_
               THEN tpc'[t] = "got_notok" /\ db_refs_' = db_refs_
               ELSE tpc'[t] = "got_ok" /\ db_refs_' = db_refs_ + 1
      /\ (db_closing_ /\ ~db_closing_') => mpc = "Open"
      /\ (~db_closing_ /\ db_closing_') => mpc = "CloseDB" ]_vars

\* One caller holds a reference taken before CloseDB set the flag, another was
\* refused after it.
C2_Witness ==
  /\ db_closing_
  /\ db_refs_ = 1
  /\ \E t1, t2 \in Threads : tpc[t1] = "got_ok" /\ tpc[t2] = "got_notok"

(***************************************************************************)
(* C7 as stated: after a tick that observed a total size exceeding         *)
(* max_db_size GiB (max_db_size not 0) every Write until the next tick     *)
(* returns SpaceLimit and commits nothing; after a tick that observed a    *)
(* size not exceeding it, or max_db_size = 0, no Write returns SpaceLimit. *)
(***************************************************************************)
WriteStep == last_write'.op = "Write" /\ last_write'.n # last_write.n

C7_GateExceeds ==
  [][ (WriteStep /\ last_tick.seen) =>
        IF last_tick.max # 0 /\ last_tick.size > last_tick.max * GiB
          THEN /\ last_write'.ret = "SpaceLimit"
               /\ UNCHANGED <<metadata_cf, default_cf, slot_cf>>
          ELSE last_write'.ret # "SpaceLimit" ]_vars

(***************************************************************************)
(* C7 amended: the gate is closed by a tick that observed a total size of  *)
(* at least max_db_size GiB (max_db_size not 0): every Write until the     *)
(* next tick then returns SpaceLimit and commits nothing; after a tick     *)
(* that observed a smaller size, or with max_db_size = 0, no Write returns *)
(* SpaceLimit.  The size at the time of the Write plays no part.           *)
(***************************************************************************)
C7_GateFollowsLastTick ==
  [][ (WriteStep /\ last_tick.seen) =>
        IF last_tick.max # 0 /\ last_tick.size >= last_tick.max * GiB
          THEN /\ last_write'.ret = "SpaceLimit"
               /\ UNCHANGED <<metadata_cf, default_cf, slot_cf>>
          ELSE last_write'.ret # "SpaceLimit" ]_vars

\* A Write was refused after a tick that saw exactly 1 GiB, although the size
\* has dropped to 0 since.
C7_Witness ==
  /\ last_write.op = "Write"
  /\ last_write.ret = "SpaceLimit"
  /\ last_tick.seen /\ last_tick.max = 1 /\ last_tick.size = GiB
  /\ total_size = 0

(***************************************************************************)
(* Tokenizer claims                                                        *)
(***************************************************************************)
IsPrefix(s, t) == Len(s) <= Len(t) /\ SubSeq(t, 1, Len(s)) = s

\* The iterations that read a well-formed header line starting with c.
Headers(st, c) ==
  {i \in 1..Len(tok_log) :
     /\ tok_log[i].st = st
     /\ tok_log[i].line # <<>>
     /\ tok_log[i].line[1] = c
     /\ Stoull(Tail(tok_log[i].line)).ok}

\* The number a header line declares.
Declared(i) == Stoull(Tail(tok_log[i].line)).val

\* The iterations that took a bulk argument out of the buffer, and for each
\* the length its $ header declared.
BulkTaken == {i \in 1..Len(tok_log) : tok_log[i].st = "BulkData" /\ tok_log[i].res = Continue}
BulkHeader(i) == CHOOSE j \in 1..(i - 1) :
                   /\ tok_log[j].st = "BulkLen"
                   /\ \A k \in (j + 1)..(i - 1) : tok_log[k].st # "BulkLen"

RECURSIVE EatenUpTo(_)
EatenUpTo(i) == IF i = 0 THEN <<>> ELSE EatenUpTo(i - 1) \o tok_log[i].eaten

(***************************************************************************)
(* C8: however the input is cut into chunks, one Tokenize call per chunk,  *)
(* the commands produced so far are a prefix of the commands one Tokenize  *)
(* call produces on all the bytes received.                                *)
(***************************************************************************)
C8_ChunkedIsPrefixOfOneCall ==
  IsPrefix(commands_, TokenizeNew(received, codis_enabled).commands_)

(***************************************************************************)
(* C9: at state ArrayLen a header *N is accepted (the state becomes        *)
(* BulkLen) when N <= 8192 or codis_enabled is set, and is rejected with   *)
(* "too many bulk strings" when N > 8192 and codis_enabled is not set.     *)
(***************************************************************************)
C9_MultiBulkLimit ==
  \A i \in Headers("ArrayLen", "*") :
    IF codis_enabled \/ Declared(i) <= 8192
      THEN /\ tok_log[i].res = Continue
           /\ tok_log[i + 1].st = "BulkLen"
      ELSE /\ tok_log[i].res = NotOK("Protocol error: too many bulk strings")
           /\ tok_status = tok_log[i].res

\* *8192 was accepted without codis_enabled and the tokenizer waits for the
\* first bulk length.
C9_Witness ==
  /\ ~codis_enabled
  /\ state_ = "BulkLen"
  /\ multi_bulk_len_ = 8192
  /\ \E i \in Headers("ArrayLen", "*") : Declared(i) = 8192 /\ tok_log[i].res = Continue

\* What C10 says of the header, of the wait and of the bytes taken.
BulkHeaderLimit ==
  \A i \in Headers("BulkLen", "$") :
    IF Declared(i) <= 134217728
      THEN /\ tok_log[i].res = Continue
           /\ tok_log[i + 1].st = "BulkData"
      ELSE /\ tok_log[i].res = NotOK("Protocol error: too big bulk string")
           /\ tok_status = tok_log[i].res

BulkWaits ==
  /\ (tok_status = StatusOK /\ state_ = "BulkData") => Len(input) < bulk_len_ + 2
  /\ \A i \in 1..Len(tok_log) :
       (tok_log[i].st = "BulkData" /\ tok_log[i].res = StatusOK) =>
          tok_log[i].eaten = <<>> /\ tok_log[i].arg = <<>>

BulkTakes ==
  /\ \A i \in BulkTaken :
       LET L == Declared(BulkHeader(i))
       IN /\ Len(tok_log[i].eaten) = L + 2
          /\ tok_log[i].arg = SubSeq(tok_log[i].eaten, 1, L)
  /\ EatenUpTo(Len(tok_log)) \o input = received

(***************************************************************************)
(* C10 as stated: a header $L is accepted iff L <= 128 MiB; for an         *)
(* accepted L the tokenizer waits until L + 2 bytes are buffered, then     *)
(* appends the first L bytes as one argument and consumes L + 2 bytes, the *)
(* last two being the trailing CRLF.                                       *)
(***************************************************************************)
C10_BulkEndsWithCRLF ==
  /\ BulkHeaderLimit
  /\ BulkWaits
  /\ BulkTakes
  /\ \A i \in BulkTaken :
       LET L == Declared(BulkHeader(i))
       IN SubSeq(tok_log[i].eaten, L + 1, L + 2) = CRLF

(***************************************************************************)
(* C10 amended: a header $L is accepted iff L <= 128 MiB; for an accepted  *)
(* L the tokenizer waits until L + 2 bytes are buffered, then appends the  *)
(* first L bytes as one argument and consumes L + 2 bytes; the two bytes   *)
(* after the argument are dropped whatever they are.                       *)
(***************************************************************************)
C10_BulkConsumed == BulkHeaderLimit /\ BulkWaits /\ BulkTakes

\* After $1 the tokenizer waited for a short buffer, then took the argument "a".
C10_Witness ==
  \E i, j \in 1..Len(tok_log) :
    /\ i < j
    /\ tok_log[i].st = "BulkData" /\ tok_log[i].res = StatusOK
    /\ tok_log[j].st = "BulkData" /\ tok_log[j].res = Continue
    /\ tok_log[j].arg = <<"a">>
    /\ tok_log[j].eaten = <<"a">> \o CRLF

(***************************************************************************)
(* Dispatcher claims                                                       *)
(***************************************************************************)
Ran(e, step) == \E n \in 1..Len(e.steps) : e.steps[n] = step
Entries == {exec_log[i] : i \in 1..Len(exec_log)}
Descriptor(e) == LookupCommand(Head(e.tokens))

(***************************************************************************)
(* C3: for a connection with no namespace, when requirepass is set and     *)
(* argv[0] is not "auth" in any letter case, the reply is NOAUTH, the      *)
(* command is neither looked up nor executed and the namespace stays       *)
(* empty; otherwise the connection becomes admin of the default namespace  *)
(* before the command is looked up.                                        *)
(***************************************************************************)
C3_AuthGate ==
  \A e \in Entries :
    e.ns_before = "" =>
      IF requirepass # "" /\ ToLower(Head(e.tokens)) # <<"a", "u", "t", "h">>
        THEN /\ e.replies = <<Error("NOAUTH Authentication required.")>>
             /\ e.steps = <<>>
             /\ e.ns_after = ""
        ELSE /\ Len(e.steps) >= 3
             /\ SubSeq(e.steps, 1, 3) = <<"BecomeAdmin", "SetNamespace", "LookupCommand">>
             /\ e.ns_after = kDefaultNamespace
             /\ e.admin_after

\* With a password required, get was answered NOAUTH and the AUTH after it,
\* in upper case, became admin of the default namespace and was executed.
C3_Witness ==
  /\ requirepass # ""
  /\ Len(exec_log) = 2
  /\ exec_log[1].ns_before = ""
  /\ exec_log[1].replies = <<Error("NOAUTH Authentication required.")>>
  /\ exec_log[2].ns_before = ""
  /\ Head(exec_log[2].tokens) = <<"A", "U", "T", "H">>
  /\ Ran(exec_log[2], "Execute")
  /\ conn_ns = kDefaultNamespace /\ conn_admin

(***************************************************************************)
(* C4: a command of arity a that reaches the arity check with n tokens is  *)
(* answered "wrong number of arguments", with neither Parse nor Execute    *)
(* called, when a > 0 and n # a or a < 0 and n < -a; in every other case   *)
(* it goes on to Parse.                                                    *)
(***************************************************************************)
C4_ArityCheck ==
  \A e \in Entries :
    Ran(e, "GetArity") =>
      LET a == Descriptor(e).cmd.arity
          n == Len(e.tokens)
      IN IF (a > 0 /\ n # a) \/ (a < 0 /\ n < -a)
           THEN /\ e.replies = <<Error("ERR wrong number of arguments")>>
                /\ ~Ran(e, "Parse")
                /\ ~Ran(e, "Execute")
           ELSE /\ Ran(e, "Parse")
                /\ e.replies # <<Error("ERR wrong number of arguments")>>

\* set with two tokens (arity -3) was refused and set with four was executed.
C4_Witness ==
  /\ \E e \in Entries :
       /\ e.tokens = <<<<"s", "e", "t">>, <<"k">>>>
       /\ e.replies = <<Error("ERR wrong number of arguments")>>
  /\ \E e \in Entries :
       /\ e.tokens = <<<<"s", "e", "t">>, <<"k">>, <<"v">>, <<"v">>>>
       /\ Ran(e, "Execute")

(***************************************************************************)
(* C5: with slave_readonly set on a follower no write command is executed, *)
(* and none of the call counter, timer, slowlog, latency or monitor steps  *)
(* run for it; one that reaches the read-only check is answered READONLY.  *)
(* A command that does not write and reaches the check is executed.        *)
(***************************************************************************)
C5_ReadOnlyFollower ==
  (slave_readonly /\ is_slave) =>
    \A e \in Entries :
      Descriptor(e).ok =>
        IF Descriptor(e).cmd.is_write
          THEN /\ \A step \in {"Execute", "IncrCalls", "now",
                               "SlowlogPushEntryIfNeeded", "IncrLatency",
                               "FeedMonitorConns"} : ~Ran(e, step)
               /\ Ran(e, "IsWrite") =>
                    e.replies = <<Error("READONLY You can't write against a read only slave.")>>
          ELSE Ran(e, "IsWrite") => Ran(e, "Execute")

\* On a read-only follower set was answered READONLY and get was executed.
C5_Witness ==
  /\ slave_readonly /\ is_slave
  /\ \E e \in Entries :
       /\ Head(e.tokens) = <<"s", "e", "t">>
       /\ e.replies = <<Error("READONLY You can't write against a read only slave.")>>
  /\ \E e \in Entries :
       /\ Head(e.tokens) = <<"g", "e", "t">>
       /\ Ran(e, "Execute")

(***************************************************************************)
(* C6: while the server is loading, every command of the pipeline that is  *)
(* not in the whitelist {auth} is not executed and is answered with an     *)
(* error reply, and every whitelisted command goes on to the arity check.  *)
(***************************************************************************)
C6_LoadingRejectsEach ==
  (is_loading /\ ~conn_close) =>
    \A i \in 1..Len(request) :
      LET s == LookupCommand(Head(request[i]))
      IN s.ok =>
           /\ i <= Len(exec_log)
           /\ IF s.cmd.name = <<"a", "u", "t", "h">>
                THEN Ran(exec_log[i], "GetArity")
                ELSE /\ ~Ran(exec_log[i], "Execute")
                     /\ Len(exec_log[i].replies) = 1
                     /\ exec_log[i].replies[1].error

(***************************************************************************)
(* Tokenizer claims: inline requests, errors, the inbound bytes counter    *)
(***************************************************************************)
\* The iterations that read a non-empty line not starting with * at ArrayLen.
InlineLines ==
  {i \in 1..Len(tok_log) :
     /\ tok_log[i].st = "ArrayLen"
     /\ tok_log[i].line # <<>>
     /\ tok_log[i].line[1] # "*"}

\* The number of commands delivered before iteration i.
DeliveredBefore(i) == IF i = 1 THEN 0 ELSE tok_log[i - 1].ncmd

RECURSIVE Flatten(_)
Flatten(ss) == IF ss = <<>> THEN <<>> ELSE Head(ss) \o Flatten(Tail(ss))

NoBlank(c) == c \notin {"SP", "TAB"}

ViolationMsg(e) ==
  LET n == Stoull(Tail(e.line))
  IN CASE e.st = "ArrayLen" /\ e.line # <<>> /\ e.line[1] = "*" /\ ~n.ok ->
            "Protocol error: expect integer"
       [] e.st = "ArrayLen" /\ e.line # <<>> /\ e.line[1] = "*" /\ n.ok
            /\ ~codis_enabled /\ n.val > 8192 ->
            "Protocol error: too many bulk strings"
       [] e.st = "ArrayLen" /\ e.line # <<>> /\ e.line[1] # "*"
            /\ Len(e.line) > 16384 ->
            "Protocol error: too big inline request"
       [] e.st = "BulkLen" /\ e.line # <<>> /\ e.line[1] # "$" ->
            "Protocol error: expect '$'"
       [] e.st = "BulkLen" /\ e.line # <<>> /\ e.line[1] = "$" /\ ~n.ok ->
            "Protocol error: expect integer"
       [] e.st = "BulkLen" /\ e.line # <<>> /\ e.line[1] = "$" /\ n.ok
            /\ n.val > 134217728 ->
            "Protocol error: too big bulk string"
       [] OTHER -> ""

ViolationsReturn(kind) ==
  \A i \in 1..Len(tok_log) :
    LET e == tok_log[i]
    IN IF ViolationMsg(e) # ""
         THEN /\ e.res = [code |-> kind, msg |-> ViolationMsg(e)]
              /\ i = Len(tok_log)
              /\ tok_status = e.res
         ELSE e.res.code \in {"OK", "continue"}

(***************************************************************************)
(* C12 as stated: every parse violation Tokenize detects is returned as a  *)
(* status of kind Protocol with a human-readable message.                  *)
(***************************************************************************)
C12_ViolationsAreProtocol == ViolationsReturn("Protocol")

(***************************************************************************)
(* C12 amended: every parse violation Tokenize detects is returned as a    *)
(* status of kind NotOK whose message starts with "Protocol error:" and    *)
(* names the violation; Tokenize returns nothing but OK otherwise.         *)
(***************************************************************************)
C12_ViolationsAreNotOK == ViolationsReturn("NotOK")

\* After *1 the line $a was refused: no integer after $.
C12_Witness ==
  /\ tok_status = [code |-> "NotOK", msg |-> "Protocol error: expect integer"]
  /\ Len(tok_log) >= 2
  /\ tok_log[Len(tok_log)].st = "BulkLen"
  /\ tok_log[Len(tok_log)].line = <<"$", "a">>

(***************************************************************************)
(* C13: after any sequence of Tokenize calls the inbound bytes counter has *)
(* grown by exactly the number of bytes removed from the input buffer,     *)
(* line terminators included.                                              *)
(***************************************************************************)
C13_CounterCountsEveryByte == inbound_bytes = Len(received) - Len(input)

(***************************************************************************)
(* Write path claims: the slot index                                       *)
(***************************************************************************)
WriteOrDeleteStep ==
  last_write'.op \in {"Write", "Delete"} /\ last_write'.n # last_write.n
WriteBatchStep ==
  last_write'.op = "WriteBatch" /\ last_write'.n # last_write.n

\* Every user key that the step added to or removed from the metadata column
\* family is, after the step, in the slot index iff it is in the metadata.
SlotIndexFollows ==
  \A k \in Keys :
    ((k \in metadata_cf') # (k \in metadata_cf)) =>
       ((k \in slot_cf') = (k \in metadata_cf'))

(***************************************************************************)
(* C14: with codis_enabled, every Storage::Write and every Storage::Delete *)
(* of a metadata key commits the user mutation and the slot index update   *)
(* of the touched keys together or not at all; a failing slot update never *)
(* lets the user mutation commit alone.                                    *)
(***************************************************************************)
C14_SlotUpdateCommitsWithMutation ==
  [][(codis_enabled /\ WriteOrDeleteStep) => SlotIndexFollows]_vars

(***************************************************************************)
(* C15 as stated: Storage::WriteBatch performs the steps of Storage::Write *)
(* on the batch, slot index extraction and update included, so that the    *)
(* slot index follows the metadata after every batch applied.              *)
(***************************************************************************)
C15_WriteBatchSameAsWrite ==
  [][(codis_enabled /\ WriteBatchStep) => SlotIndexFollows]_vars

\* The batch already holds the slot index operations of its metadata keys.
CarriesSlotOps(b) == b = UpdateKeys(GetPutKeys(b), GetDeleteKeys(b), b)

(***************************************************************************)
(* C15 amended: Storage::WriteBatch applies the size gate of Write and     *)
(* then commits the raw batch as it is in one db Write, all of it or none, *)
(* with no slot index extraction: the slot index changes only by the slot  *)
(* operations the batch already carries, and follows the metadata when the *)
(* batch carries them.                                                     *)
(***************************************************************************)
C15_WriteBatchAppliesRaw ==
  [][WriteBatchStep =>
       /\ reach_db_size_limit_ =>
            /\ last_write'.ret = "NotOK"
            /\ UNCHANGED <<metadata_cf, default_cf, slot_cf>>
       /\ ~reach_db_size_limit_ =>
            \/ /\ last_write'.ret = "OK"
               /\ metadata_cf' = ApplyCF(metadata_cf, last_batch', "metadata")
               /\ default_cf' = ApplyCF(default_cf, last_batch', "default")
               /\ slot_cf' = ApplyCF(slot_cf, last_batch', "slot")
            \/ /\ last_write'.ret = "NotOK"
               /\ UNCHANGED <<metadata_cf, default_cf, slot_cf>>
       /\ (\A o \in last_batch' : o.cf # "slot") => slot_cf' = slot_cf
       /\ (last_write'.ret = "OK" /\ CarriesSlotOps(last_batch')) => SlotIndexFollows
    ]_vars

\* With codis_enabled, WriteBatch committed a put of k1 in the metadata column
\* family that came without slot operation: k1 is not in the slot index.
C15_Witness ==
  /\ codis_enabled
  /\ last_write.op = "WriteBatch" /\ last_write.ret = "OK"
  /\ last_batch = {[cf |-> "metadata", kind |-> "put", key |-> "k1"]}
  /\ "k1" \in metadata_cf
  /\ "k1" \notin slot_cf

(***************************************************************************)
(* C16: RestoreFromBackup is all-or-nothing: when it has returned OK the   *)
(* DB is open, and when it has returned an error the storage is still open *)
(* and usable: not closed, db_closing_ not set, the DB handle not freed.   *)
(***************************************************************************)
C16_RestoreAllOrNothing ==
  (mpc = "idle" /\ restore_ret # "none") => (db_ = "open" /\ ~db_closing_)

\* The backups of the list that the rule of C17 keeps.
AmongMostRecent(i, infos, keep) == i > Len(infos) - keep
NotTooOld(info, hours) == hours = 0 \/ info.timestamp >= Now - hours * HourUnits

(***************************************************************************)
(* C17: after PurgeOldBackups the surviving backups are exactly those that *)
(* are among the num_to_keep most recent and, unless max_keep_hours is 0,  *)
(* have a timestamp not older than now - max_keep_hours.                   *)
(***************************************************************************)
C17_SurvivorsExact ==
  purge_pc = "done" =>
    {backup_infos[i].backup_id : i \in 1..Len(backup_infos)} =
      {purge_before[i].backup_id :
         i \in {j \in 1..Len(purge_before) :
                  /\ AmongMostRecent(j, purge_before, num_backups_to_keep)
                  /\ NotTooOld(purge_before[j], backup_max_keep_hours)}}

(***************************************************************************)
(* Dispatcher claims: execution errors, replies, the order of the checks   *)
(***************************************************************************)
\* The commands whose Execute ran.
Executed == {i \in 1..Len(exec_log) : Ran(exec_log[i], "Execute")}

(***************************************************************************)
(* C18: when Execute returns a status that is not OK the connection gets   *)
(* the error reply "ERR <msg>" for the command, and the loop goes on with  *)
(* the next command of the pipeline.                                       *)
(***************************************************************************)
C18_ExecuteErrorGoesOn ==
  \A i \in Executed :
    exec_log[i].s.code # "OK" =>
      /\ exec_log[i].replies =
           <<[error |-> TRUE, text |-> <<"ERR ", exec_log[i].s.msg>>]>>
      /\ (i < Len(request) /\ ~exec_log[i].close_after) =>
           /\ Len(exec_log) > i
           /\ exec_log[i + 1].tokens = request[i + 1]

\* The first command failed in Execute and the second was executed.
C18_Witness ==
  /\ Len(exec_log) = 2
  /\ Ran(exec_log[1], "Execute")
  /\ exec_log[1].s.code = "NotOK"
  /\ exec_log[1].replies = <<ErrorWith("ERR ", "failed")>>
  /\ Ran(exec_log[2], "Execute")

\* The buffer of a command was written to the connection.
BufferWritten(e) == \E n \in 1..Len(e.replies) : ~e.replies[n].error

\* Once kCloseAfterReply is set, no later command of the pipeline is
\* processed.
StopsOnceFlagSet ==
  /\ \A i \in 1..Len(exec_log) : exec_log[i].close_after => Len(exec_log) = i
  /\ (request # <<>> /\ exec_log = <<>>) => conn_close

(***************************************************************************)
(* C19 as stated: the reply buffer a command's execution returns is        *)
(* written to the connection iff kCloseAfterReply is not set; once the     *)
(* flag is set no later command of the pipeline is executed.               *)
(***************************************************************************)
C19_ReplyIffFlagNotSet ==
  /\ \A i \in Executed :
       (exec_log[i].s.code = "OK" /\ exec_log[i].buf # "") =>
         (BufferWritten(exec_log[i]) <=> ~exec_log[i].close_after)
  /\ StopsOnceFlagSet

(***************************************************************************)
(* C19 amended: the reply buffer is written to the connection iff Execute  *)
(* returned OK and the buffer is not empty, whether kCloseAfterReply is    *)
(* set or not; the flag is looked at before each command only, and once it *)
(* is set no later command of the pipeline is executed.                    *)
(***************************************************************************)
C19_ReplyIffOkAndNotEmpty ==
  /\ \A i \in Executed :
       LET e == exec_log[i]
       IN IF e.s.code = "OK" /\ e.buf # ""
            THEN e.replies = <<[error |-> FALSE, text |-> <<e.buf>>]>>
            ELSE ~BufferWritten(e)
  /\ StopsOnceFlagSet

\* A command enabled kCloseAfterReply and its reply was written all the same;
\* the command after it was not processed.
C19_Witness ==
  /\ Len(request) = 2
  /\ Len(exec_log) = 1
  /\ exec_log[1].close_after
  /\ exec_log[1].replies = <<Plain("+OK")>>
  /\ conn_close

\* The checks in the order of C20, each with the reply of its failure; Parse
\* fails when the command says so.
FirstFailure(e) ==
  LET name == ToLower(Head(e.tokens))
      known == {c \in CommandTable : c.name = name}
      cmd == CHOOSE c \in known : TRUE
      n == Len(e.tokens)
  IN IF e.ns_before = "" /\ requirepass # "" /\ name # <<"a", "u", "t", "h">>
       THEN [check |-> "auth", reply |-> <<"NOAUTH Authentication required.">>]
     ELSE IF known = {}
       THEN [check |-> "LookupCommand", reply |-> <<"ERR unknown command">>]
     ELSE IF is_loading /\ name # <<"a", "u", "t", "h">>
       THEN [check |-> "IsLoading", reply |-> <<"ERR restoring the db from backup">>]
     ELSE IF (cmd.arity > 0 /\ n # cmd.arity) \/ (cmd.arity < 0 /\ n < -cmd.arity)
       THEN [check |-> "GetArity", reply |-> <<"ERR wrong number of arguments">>]
     ELSE IF Ran(e, "Parse") /\ e.s.code # "OK" /\ ~Ran(e, "Execute")
       THEN [check |-> "Parse", reply |-> <<e.s.msg>>]
     ELSE IF slave_readonly /\ is_slave /\ cmd.is_write
       THEN [check |-> "IsWrite",
             reply |-> <<"READONLY You can't write against a read only slave.">>]
     ELSE [check |-> "none", reply |-> <<>>]

\* The checks and calls of a command, in the order they are to run.
CheckOrder == <<"LookupCommand", "IsLoading", "GetArity", "Parse", "IsWrite", "Execute">>
IsCheck(step) == \E n \in 1..Len(CheckOrder) : CheckOrder[n] = step
PlaceOf(step) == CHOOSE n \in 1..Len(CheckOrder) : CheckOrder[n] = step

(***************************************************************************)
(* C20: for each command the checks run in the order auth gate, lookup,    *)
(* loading, arity, Parse, read-only; a rejected command gets the reply of  *)
(* the first check that fails in that order, and no later check, no Parse  *)
(* and no Execute runs after it.                                           *)
(***************************************************************************)
C20_ChecksInOrder ==
  \A e \in Entries :
    LET f == FirstFailure(e)
        ran == SelectSeq(e.steps, IsCheck)
    IN /\ \A n \in 1..(Len(ran) - 1) : PlaceOf(ran[n]) < PlaceOf(ran[n + 1])
       /\ IF f.check = "none"
            THEN Ran(e, "Execute")
            ELSE /\ e.replies = <<[error |-> TRUE, text |-> f.reply]>>
                 /\ IF f.check = "auth"
                      THEN ran = <<>>
                      ELSE ran # <<>> /\ ran[Len(ran)] = f.check

\* While loading, on a read-only follower, set with too few arguments was
\* answered with the loading error: the first failing check.
C20_Witness ==
  /\ is_loading /\ slave_readonly /\ is_slave
  /\ \E e \in Entries :
       /\ e.tokens = <<<<"s", "e", "t">>, <<"k">>>>
       /\ e.replies = <<Error("ERR restoring the db from backup")>>
       /\ e.steps[Len(e.steps)] = "IsLoading"

\* Where a step ran for a command, in the order of its steps.
Places(e, step) == {n \in 1..Len(e.steps) : e.steps[n] = step}
PlaceIn(e, step) == CHOOSE n \in Places(e, step) : TRUE

\* The accounting of an executed command.
Accounting ==
  {"IncrCalls", "SlowlogPushEntryIfNeeded", "IncrLatency", "FeedMonitorConns"}

(***************************************************************************)
(* C21: for each command of a pipeline the call counter increment, the     *)
(* slowlog hook, the latency increment and the monitor fan-out each happen *)
(* exactly once if the command passed every check, whether Execute then    *)
(* succeeded or failed, and never if the command was rejected; the call    *)
(* counter is incremented before Execute, and slowlog, latency and monitor *)
(* come after Execute in that order.                                       *)
(***************************************************************************)
C21_AccountingOncePerExecuted ==
  \A e \in Entries :
    IF FirstFailure(e).check = "none"
      THEN /\ \A step \in Accounting \cup {"Execute"} :
                Cardinality(Places(e, step)) = 1
           /\ PlaceIn(e, "IncrCalls") < PlaceIn(e, "Execute")
           /\ PlaceIn(e, "Execute") < PlaceIn(e, "SlowlogPushEntryIfNeeded")
           /\ PlaceIn(e, "SlowlogPushEntryIfNeeded") < PlaceIn(e, "IncrLatency")
           /\ PlaceIn(e, "IncrLatency") < PlaceIn(e, "FeedMonitorConns")
      ELSE \A step \in Accounting \cup {"Execute"} : Places(e, step) = {}

\* A pipeline of a command whose Execute failed and of a rejected one: the
\* first was accounted, the second was not.
C21_Witness ==
  /\ Len(exec_log) = 2
  /\ exec_log[1].s.code = "NotOK"
  /\ \A step \in Accounting : Cardinality(Places(exec_log[1], step)) = 1
  /\ exec_log[2].replies = <<Error("ERR wrong number of arguments")>>
  /\ \A step \in Accounting : Places(exec_log[2], step) = {}

\* The command is auth, in any case of letters.
IsAuth(e) == ToLower(Head(e.tokens)) = <<"a", "u", "t", "h">>

\* The connection had no namespace when the pipeline began, and a password is
\* required.
Unauthenticated ==
  exec_log # <<>> /\ exec_log[1].ns_before = "" /\ requirepass # ""

(***************************************************************************)
(* C23: when requirepass is configured, no command other than auth is      *)
(* executed on a connection before an auth command was executed on it: an  *)
(* auth command that is rejected before its execution (wrong number of     *)
(* arguments, Parse failure, loading) leaves the connection without a      *)
(* namespace and without admin rights, and a later command that is not     *)
(* auth is still answered with NOAUTH.                                     *)
(***************************************************************************)
C23_NoCommandBeforeAuth ==
  Unauthenticated =>
    \A i \in 1..Len(exec_log) :
      LET e == exec_log[i]
          authed == \E j \in 1..(i - 1) :
                      IsAuth(exec_log[j]) /\ Ran(exec_log[j], "Execute")
      IN /\ (IsAuth(e) /\ ~Ran(e, "Execute") /\ ~authed) =>
              (e.ns_after = "" /\ ~e.admin_after)
         /\ (~IsAuth(e) /\ ~authed) =>
              /\ ~Ran(e, "Execute")
              /\ e.replies = <<Error("NOAUTH Authentication required.")>>

(***************************************************************************)
(* C29: the reply written for an executed command is the output of its own *)
(* Execute: a command whose Execute writes no output causes no reply, and  *)
(* the reply of an earlier command of the pipeline is never sent again.    *)
(***************************************************************************)
C29_ReplyIsOwnOutput ==
  \A i \in Executed :
    exec_log[i].s.code = "OK" =>
      exec_log[i].replies = IF exec_log[i].output # ""
                              THEN <<Plain(exec_log[i].output)>>
                              ELSE <<>>

(***************************************************************************)
(* C27: every command the tokenizer hands to the dispatcher has at least   *)
(* one argument, for every input, empty and whitespace-only inline lines   *)
(* included, so that reading the first token of a command is defined.      *)
(***************************************************************************)
C27_CommandsHaveFirstToken ==
  \A i \in 1..Len(commands_) : commands_[i] # <<>>

\* The multi-bulk headers that were accepted.
Accepted == {i \in Headers("ArrayLen", "*") : tok_log[i].res = Continue}

\* The iterations that took a bulk argument for the header of iteration i:
\* those after it with no iteration at state ArrayLen in between.
TakenFor(i) ==
  {j \in BulkTaken : j > i /\ \A k \in (i + 1)..j : tok_log[k].st # "ArrayLen"}

\* The arguments of a set of iterations, in order.
ArgsOf(J) == [k \in 1..Cardinality(J) |-> tok_log[Kth(J, k)].arg]

\* The header the tokenizer is collecting the arguments of.
LastAccepted == CHOOSE i \in Accepted : \A j \in Accepted : j <= i

(***************************************************************************)
(* C28: for every accepted multi-bulk header *N, N = 0 included, the       *)
(* tokenizer takes no more than the N bulk arguments that follow, delivers *)
(* exactly one command made of them in order and is back in state ArrayLen *)
(* right after the N-th bulk; the counter of the arguments left never      *)
(* wraps below zero, so it never exceeds N.                                *)
(***************************************************************************)
C28_OneCommandPerHeader ==
  /\ \A i \in Accepted :
       LET N == Declared(i)
           J == TakenFor(i)
           last == IF J = {} THEN i ELSE Kth(J, Cardinality(J))
       IN /\ Cardinality(J) <= N
          /\ (J # {} /\ Cardinality(J) = N) =>
               /\ tok_log[last].next = "ArrayLen"
               /\ tok_log[last].ncmd = DeliveredBefore(i) + 1
               /\ commands_[tok_log[last].ncmd] = ArgsOf(J)
          /\ Cardinality(J) < N => tok_log[last].ncmd = DeliveredBefore(i)
  /\ state_ # "ArrayLen" => multi_bulk_len_ <= Declared(LastAccepted)

(***************************************************************************)
(* Life cycle claims: termination of CloseDB, validity of the handle       *)
(***************************************************************************)
\* CloseDB is running: between its call and the destruction of the handles.
InCloseDB == mpc \in {"CloseDB", "Wait", "Destroy"}

\* CloseDB has set db_closing_ and has not destroyed the handles yet.
Closing == mpc \in {"Wait", "Destroy"}

(***************************************************************************)
(* C24: CloseDB terminates: under fair scheduling, when every thread that  *)
(* got OK from IncrDBRefs calls DecrDBRefs in the end, db_refs_ never      *)
(* increases once db_closing_ is set, it reaches 0, and CloseDB leaves its *)
(* wait loop and destroys the handles.                                     *)
(***************************************************************************)
C24_CloseDBTerminates ==
  /\ [][Closing => db_refs_' <= db_refs_]_vars
  /\ (mpc = "CloseDB") ~> (mpc = "Destroy" /\ db_refs_ = 0)
  /\ InCloseDB ~> (~InCloseDB /\ db_ = "freed")

\* CloseDB entered its wait loop with references out, and they all came back.
C24_Witness ==
  mpc = "Wait" /\ db_closing_ /\ db_refs_ = 0 /\ Holders = {}

(***************************************************************************)
(* C25: IncrDBRefs returns OK only while the DB handle is valid: in every  *)
(* interleaving of Open, CloseDB, RestoreFromBackup and IncrDBRefs no      *)
(* thread holds a reference it took with success while the DB is not open  *)
(* (before the first Open has completed, or between the reset of the flag  *)
(* at the start of Open and the completion of the DB open in a restore).   *)
(***************************************************************************)
C25_ReferenceOnlyWhileOpen ==
  Holders # {} => db_ = "open"

(***************************************************************************)
(* C26: the DB and its column family handles are destroyed at most once    *)
(* per successful Open: over any sequence of Open, RestoreFromBackup       *)
(* (succeeding or failing at any step) and destruction of the Storage,     *)
(* CloseDB never runs on a DB that is already closed.                      *)
(***************************************************************************)
C26_CloseDBOnlyOnOpenDB ==
  InCloseDB => db_ = "open"

(***************************************************************************)
(* The counter of the commands in execution                                *)
(***************************************************************************)
\* The workers between their increment and their decrement, and those inside
\* Execute.
Counted == {w \in Workers : wpc[w] \in {"incremented", "executing", "returned"}}
InExecute == {w \in Workers : wpc[w] = "executing"}

(***************************************************************************)
(* C22: at every moment and over all worker threads executing_command_num  *)
(* is the number of Execute calls in flight, an Execute being in flight    *)
(* from the increment right before it to the decrement right after it, on  *)
(* every way Execute returns; the counter is never negative and it is 0    *)
(* only when no command is executing.                                      *)
(***************************************************************************)
C22_CounterIsCommandsInFlight ==
  /\ executing_command_num = Cardinality(Counted)
  /\ executing_command_num >= 0
  /\ executing_command_num = 0 => InExecute = {}

\* Two workers are inside Execute while a third one, whose last Execute
\* failed, is between two commands of its pipeline.
C22_Witness ==
  /\ executing_command_num = 2
  /\ Cardinality(InExecute) = 2
  /\ \E w \in Workers : wpc[w] = "loop" /\ wlast[w] = "NotOK" /\ wtodo[w] > 0

====
